---- MODULE Spec2Model ----
(***************************************************************************)
(* Authorization and domain-invariant layer of the Epic Events CRM:        *)
(* User.has_permission, the Client/Contract/Event services, the            *)
(* repositories and model methods they call, the token lookup and the      *)
(* require_* decorators.                                                   *)
(*                                                                         *)
(* Tables are sequences; a row's id is its index (rows are never deleted   *)
(* by the services).  A NULL id column is None == 0 (ids start at 1); an   *)
(* Optional argument is a set of at most one value.  Amounts are integers. *)
(* A service call is a pure operator from the store and the arguments to   *)
(* a Result [err, msg, db]; the action applies it and records the call in  *)
(* `last`.  A raised exception rolls the session back, so db is the store  *)
(* as committed before the raise.  A list call returns the set of the ids  *)
(* of its rows.                                                            *)
(***************************************************************************)
EXTENDS Integers, Sequences, FiniteSets, TLC

VARIABLES users, clients, contracts, events, last, perm, signed_once, listed,
          calls

vars ==
    <<users, clients, contracts, events, last, perm, signed_once, listed, calls>>

\* ---------------------------------------------------------------- bounds
MaxClients == 2
MaxContracts == 1
MaxEvents == 2
MaxAmount == 2

\* ---------------------------------------------------------------- values
None == 0

MANAGEMENT == "MANAGEMENT"
COMMERCIAL == "COMMERCIAL"
SUPPORT == "SUPPORT"

Department == {COMMERCIAL, SUPPORT, MANAGEMENT}

Actions == {"create", "read", "update", "delete"}
Resources == {"user", "client", "contract", "event"}

\* A department, an action and a resource name outside the known sets.
AnyDepartment == Department \cup {"INTERN"}
AnyAction == Actions \cup {"archive"}
AnyResource == Resources \cup {"invoice"}

\* ------------------------------------------------------- User (auth/models)
\* permissions with "client" added to MANAGEMENT's update list.
permissions_management_updates_client ==
    [d \in Department |->
        CASE d = MANAGEMENT ->
                [create |-> {"user", "contract", "event"},
                 update |-> {"user", "client", "contract", "event"},
                 delete |-> {"user"},
                 read   |-> {"user", "client", "contract", "event"}]
          [] d = COMMERCIAL ->
                [create |-> {"client", "event"},
                 update |-> {"client", "contract"},
                 delete |-> {},
                 read   |-> {"client", "contract", "event"}]
          [] d = SUPPORT ->
                [create |-> {},
                 update |-> {"event"},
                 delete |-> {},
                 read   |-> {"client", "contract", "event"}]]

permissions ==
    [d \in Department |->
        CASE d = MANAGEMENT ->
                [create |-> {"user", "contract", "event"},
                 update |-> {"user", "contract", "event"},
                 delete |-> {"user"},
                 read   |-> {"user", "client", "contract", "event"}]
          [] d = COMMERCIAL ->
                [create |-> {"client", "event"},
                 update |-> {"client", "contract"},
                 delete |-> {},
                 read   |-> {"client", "contract", "event"}]
          [] d = SUPPORT ->
                [create |-> {},
                 update |-> {"event"},
                 delete |-> {},
                 read   |-> {"client", "contract", "event"}]]

\* has_permission with a default of MANAGEMENT's rights for an unknown department.
has_permission_default_management(department, action, resource) ==
    LET dept_permissions ==
            IF department \in DOMAIN permissions
            THEN permissions[department] ELSE permissions[MANAGEMENT]
        allowed_resources ==
            IF action \in DOMAIN dept_permissions
            THEN dept_permissions[action] ELSE {}
    IN  resource \in allowed_resources

\* permissions.get(self.department, {}).get(action, []) ; resource in ...
has_permission(department, action, resource) ==
    LET dept_permissions ==
            IF department \in DOMAIN permissions
            THEN permissions[department] ELSE <<>>
        allowed_resources ==
            IF action \in DOMAIN dept_permissions
            THEN dept_permissions[action] ELSE {}
    IN  resource \in allowed_resources

is_management(u) == u.department = MANAGEMENT
is_commercial(u) == u.department = COMMERCIAL
is_support(u) == u.department = SUPPORT

\* ---------------------------------------------------------------- results
Ok(db) == [err |-> "none", msg |-> "", db |-> db]
Raise(err, msg, db) == [err |-> err, msg |-> msg, db |-> db]

Max(a, b) == IF a >= b THEN a ELSE b

\* BaseRepository.get_by_id: the row, or none when the id names no row.
Exists(table, id) == id \in DOMAIN table

\* BaseRepository.update: a keyword whose value is None is skipped.
BaseRepository_update(row, update_data) ==
    [k \in DOMAIN row |->
        IF k \in DOMAIN update_data THEN update_data[k] ELSE row[k]]

\* The keywords a service puts in update_data: those whose argument is given.
Given(args) ==
    LET keys == {k \in DOMAIN args : args[k] # {}}
    IN  [k \in keys |-> CHOOSE x \in args[k] : TRUE]

\* Optional[T] argument: {} is None, {x} is the value x.
Opt(S) == {{}} \cup {{x} : x \in S}
Val(a) == CHOOSE x \in a : TRUE

\* ------------------------------------------------------------ argument sets
Emails == {"", "a", "b"}
Names == {"n1", "n2"}
\* zero, one unit and the largest amount
Amounts == {0, 1, MaxAmount}
Dates == {1, 2}
Attendees == {10, 20}

\* What is left at the place of a deleted users row: ids are never reused.
NoUser == [department |-> "", is_active |-> FALSE]
UserStored(us, user_id) == user_id \in DOMAIN us /\ us[user_id] # NoUser

UserIds == {i \in DOMAIN users : UserStored(users, i)}
\* current_user: a User row as resolved for the call
Callers == {[id |-> i, department |-> users[i].department] : i \in UserIds}
CommercialIds == {i \in UserIds : users[i].department = COMMERCIAL}

\* ids passed to a service: every row and one id that names no row
IdArgs(table) == 1..(Len(table) + 1)

\* ------------------------------------------- tokens (auth/utils, auth/service)
\* What is handed to decode_access_token: a JWT (signed with the key or not,
\* expired or not, with a user_id claim or with none: user_id = None), a
\* string that is no JWT, or a value that is no string at all (an int).
JwtStates == {"valid", "expired", "bad_signature"}
Jwt(user_id, state) == [kind |-> "jwt", user_id |-> user_id, state |-> state]
NotAJwt == [kind |-> "garbage"]
IntAsToken(n) == [kind |-> "int", value |-> n]

\* decode_access_token with an expired token accepted.
decode_access_token_ignores_expiry(token) ==
    IF token.kind = "jwt" /\ token.state \in {"valid", "expired"}
    THEN {[user_id |-> token.user_id]}
    ELSE {}

\* jwt.decode returns the payload of a well-signed, unexpired JWT; it raises
\* ExpiredSignatureError or InvalidTokenError for anything else (DecodeError,
\* "Invalid token type", for a value that is not a string), and None is
\* returned: {} here.
decode_access_token(token) ==
    IF token.kind = "jwt" /\ token.state = "valid"
    THEN {[user_id |-> token.user_id]}
    ELSE {}

\* session.get(User, user_id): the row as a current_user, or none.
SessionGetUser(us, user_id) ==
    IF UserStored(us, user_id)
    THEN {[id |-> user_id, department |-> us[user_id].department]}
    ELSE {}

\* AuthService.get_current_user(token)
AuthService_get_current_user(us, token) ==
    LET payload == decode_access_token(token)
    IN  IF payload = {} THEN {}
        ELSE IF Val(payload).user_id = None THEN {}
        ELSE SessionGetUser(us, Val(payload).user_id)

\* AuthService.update_user(user_id, department=, is_active=): the fields
\* given are stored as they are. Neither the caller nor the rows that name
\* the user are looked at. full_name and email are not part of a users row
\* here.
AuthService_update_user(us, user_id, department, is_active) ==
    IF ~UserStored(us, user_id)
    THEN Raise("ValueError", "User not found", us)
    ELSE LET d == IF department = {} THEN us[user_id].department
                  ELSE Val(department)
             a == IF is_active = {} THEN us[user_id].is_active
                  ELSE Val(is_active)
         IN  Ok([us EXCEPT ![user_id] = [department |-> d, is_active |-> a]])

\* The flush of session.delete(user): User.clients, User.contracts and
\* User.events are relationships without a delete cascade, so the foreign key
\* of each row that names the user is set to NULL before the row is deleted.
Orphaned(table, column, user_id) ==
    [i \in DOMAIN table |->
        IF table[i][column] = user_id
        THEN [table[i] EXCEPT ![column] = None]
        ELSE table[i]]

\* AuthService.delete_user(user_id): False for an unknown id, else the row
\* is deleted and True returned. The four tables after the call.
AuthService_delete_user(us, cl, ct, ev, user_id) ==
    IF ~UserStored(us, user_id)
    THEN [deleted |-> FALSE, users |-> us, clients |-> cl,
          contracts |-> ct, events |-> ev]
    ELSE [deleted |-> TRUE,
          users |-> [us EXCEPT ![user_id] = NoUser],
          clients |-> Orphaned(cl, "commercial_id", user_id),
          contracts |-> Orphaned(ct, "commercial_id", user_id),
          events |-> Orphaned(ev, "support_contact_id", user_id)]

\* ------------------------------------------------ ClientService / repository
\* Rows keep full_name, email, commercial_id; phone and company_name are
\* handled exactly as full_name and are left out.
ClientRepository_get_by_email(cl, email) ==
    {i \in DOMAIN cl : cl[i].email = email}

\* Client.email is declared unique: a commit that would store an email held
\* by another row raises IntegrityError.
EmailUnique(cl) ==
    \A i, j \in DOMAIN cl : cl[i].email = cl[j].email => i = j

\* create_client without the lookup of the email.
create_client_no_email_check(cl, full_name, email, commercial_id, current_user) ==
    IF ~has_permission(current_user.department, "create", "client")
    THEN Raise("PermissionError", "You don't have permission to create clients", cl)
    ELSE Ok(Append(cl, [full_name |-> full_name, email |-> email,
                        commercial_id |-> commercial_id]))

create_client(cl, full_name, email, commercial_id, current_user) ==
    IF ~has_permission(current_user.department, "create", "client")
    THEN Raise("PermissionError", "You don't have permission to create clients", cl)
    ELSE IF ClientRepository_get_by_email(cl, email) # {}
    THEN Raise("ValueError", "already exists", cl)
    ELSE Ok(Append(cl, [full_name |-> full_name, email |-> email,
                        commercial_id |-> commercial_id]))

\* update_client without the comparison of client.commercial_id to the caller.
update_client_any_commercial(cl, client_id, current_user, full_name, email, commercial_id) ==
    IF ~Exists(cl, client_id)
    THEN Raise("ValueError", "not found", cl)
    ELSE
    LET client == cl[client_id]
        update_data ==
            Given([full_name |-> full_name, email |-> email,
                   commercial_id |->
                       IF is_management(current_user) THEN commercial_id ELSE {}])
        updated == [cl EXCEPT ![client_id] = BaseRepository_update(client, update_data)]
    IN  IF ~is_commercial(current_user) /\ ~is_management(current_user)
        THEN Raise("PermissionError", "You don't have permission to update clients", cl)
        ELSE IF /\ email # {} /\ Val(email) # ""
                /\ Val(email) # client.email
                /\ ClientRepository_get_by_email(cl, Val(email)) # {}
        THEN Raise("ValueError", "already in use", cl)
        ELSE IF ~EmailUnique(updated)
        THEN Raise("IntegrityError", "UNIQUE constraint failed: clients.email", cl)
        ELSE Ok(updated)

\* update_client with commercial_id stored for any caller allowed to update.
update_client_anyone_reassigns(cl, client_id, current_user, full_name, email, commercial_id) ==
    IF ~Exists(cl, client_id)
    THEN Raise("ValueError", "not found", cl)
    ELSE
    LET client == cl[client_id]
        update_data ==
            Given([full_name |-> full_name, email |-> email,
                   commercial_id |-> commercial_id])
        updated == [cl EXCEPT ![client_id] = BaseRepository_update(client, update_data)]
    IN  IF is_commercial(current_user) /\ client.commercial_id # current_user.id
        THEN Raise("PermissionError", "You can only update your own clients", cl)
        ELSE IF ~is_commercial(current_user) /\ ~is_management(current_user)
        THEN Raise("PermissionError", "You don't have permission to update clients", cl)
        ELSE IF /\ email # {} /\ Val(email) # ""
                /\ Val(email) # client.email
                /\ ClientRepository_get_by_email(cl, Val(email)) # {}
        THEN Raise("ValueError", "already in use", cl)
        ELSE IF ~EmailUnique(updated)
        THEN Raise("IntegrityError", "UNIQUE constraint failed: clients.email", cl)
        ELSE Ok(updated)

update_client(cl, client_id, current_user, full_name, email, commercial_id) ==
    IF ~Exists(cl, client_id)
    THEN Raise("ValueError", "not found", cl)
    ELSE
    LET client == cl[client_id]
        update_data ==
            Given([full_name |-> full_name, email |-> email,
                   commercial_id |->
                       IF is_management(current_user) THEN commercial_id ELSE {}])
        updated == [cl EXCEPT ![client_id] = BaseRepository_update(client, update_data)]
    IN  IF is_commercial(current_user) /\ client.commercial_id # current_user.id
        THEN Raise("PermissionError", "You can only update your own clients", cl)
        ELSE IF ~is_commercial(current_user) /\ ~is_management(current_user)
        THEN Raise("PermissionError", "You don't have permission to update clients", cl)
        ELSE IF /\ email # {} /\ Val(email) # ""
                /\ Val(email) # client.email
                /\ ClientRepository_get_by_email(cl, Val(email)) # {}
        THEN Raise("ValueError", "already in use", cl)
        ELSE IF ~EmailUnique(updated)
        THEN Raise("IntegrityError", "UNIQUE constraint failed: clients.email", cl)
        ELSE Ok(updated)

\* ------------------------------------------- decorators (utils/permissions)
\* The token file: absent, empty, or holding a token.
NoTokenFile == [kind |-> "none"]
EmptyTokenFile == [kind |-> "empty"]
TokenFiles(us) ==
    {NoTokenFile, EmptyTokenFile, NotAJwt}
    \cup {Jwt(i, st) : i \in 0..(Len(us) + 1), st \in JwtStates}

\* load_token(), then "if not token": none for no file and for an empty one.
load_token(token_file) ==
    IF token_file.kind \in {"none", "empty"} THEN {} ELSE {token_file}

get_current_user_with_session(us, token_file) ==
    LET token == load_token(token_file)
    IN  IF token = {} THEN {}
        ELSE LET payload == decode_access_token(Val(token))
             IN  IF payload = {} THEN {}
                 ELSE IF Val(payload).user_id = None THEN {}
                 ELSE SessionGetUser(us, Val(payload).user_id)

AuthRequiredMsg == "Authentication required. Please login first."

\* The decorated function: one that creates a client for the injected
\* current_user.
func(cl, email, current_user) ==
    create_client(cl, "n1", email, current_user.id, current_user)

\* **kwargs of the wrapper: the keyword arguments of the call as a dict, with
\* a current_user the caller supplied or none. kwargs[key] = value.
NoKwargs == [k \in {} |-> None]
DictSet(kwargs, key, value) ==
    [k \in DOMAIN kwargs \cup {key} |-> IF k = key THEN value ELSE kwargs[k]]

\* keyword arguments of a decorated call: no current_user, or any user
KwargsArgs == {NoKwargs} \cup {[current_user |-> c] : c \in Callers}

\* kwargs.setdefault(key, value): a value already there is kept.
DictSetDefault(kwargs, key, value) ==
    [k \in DOMAIN kwargs \cup {key} |->
        IF k \in DOMAIN kwargs THEN kwargs[k] ELSE value]

\* require_auth with kwargs.setdefault in place of the assignment.
require_auth_setdefault(us, token_file, kwargs, cl, email) ==
    LET user == get_current_user_with_session(us, token_file)
    IN  IF user = {}
        THEN Raise("PermissionError", AuthRequiredMsg, cl)
        ELSE func(cl, email,
                  DictSetDefault(kwargs, "current_user", Val(user)).current_user)

require_auth(us, token_file, kwargs, cl, email) ==
    LET user == get_current_user_with_session(us, token_file)
    IN  IF user = {}
        THEN Raise("PermissionError", AuthRequiredMsg, cl)
        ELSE func(cl, email, DictSet(kwargs, "current_user", Val(user)).current_user)

require_department(departments, us, token_file, kwargs, cl, email) ==
    LET user == get_current_user_with_session(us, token_file)
    IN  IF user = {}
        THEN Raise("PermissionError", AuthRequiredMsg, cl)
        ELSE IF Val(user).department \notin departments
        THEN Raise("PermissionError",
                   "This action requires one of the following departments", cl)
        ELSE func(cl, email, DictSet(kwargs, "current_user", Val(user)).current_user)

require_permission(action, resource, us, token_file, kwargs, cl, email) ==
    LET user == get_current_user_with_session(us, token_file)
    IN  IF user = {}
        THEN Raise("PermissionError", AuthRequiredMsg, cl)
        ELSE IF ~has_permission(Val(user).department, action, resource)
        THEN Raise("PermissionError", "You don't have permission to", cl)
        ELSE func(cl, email, DictSet(kwargs, "current_user", Val(user)).current_user)

\* --------------------------------------------- Contract (models/contract.py)
Contract_sign_contract(contract) == [contract EXCEPT !.signed = TRUE]

\* self.amount_due = max(Decimal(0), self.total_amount - amount_paid)
Contract_update_payment(contract, amount_paid) ==
    [contract EXCEPT !.amount_due = Max(0, contract.total_amount - amount_paid)]

\* ----------------------------------------------------------- ContractService
\* create_contract without the has_permission test.
create_contract_no_permission_check(ct, cl, client_id, total_amount, amount_due, commercial_id, current_user) ==
    IF ~Exists(cl, client_id)
    THEN Raise("ValueError", "not found", ct)
    ELSE Ok(Append(ct, [client_id |-> client_id, total_amount |-> total_amount,
                        amount_due |-> amount_due,
                        commercial_id |-> commercial_id, signed |-> FALSE]))

create_contract(ct, cl, client_id, total_amount, amount_due, commercial_id, current_user) ==
    IF ~has_permission(current_user.department, "create", "contract")
    THEN Raise("PermissionError", "You don't have permission to create contracts", ct)
    ELSE IF ~Exists(cl, client_id)
    THEN Raise("ValueError", "not found", ct)
    ELSE Ok(Append(ct, [client_id |-> client_id, total_amount |-> total_amount,
                        amount_due |-> amount_due,
                        commercial_id |-> commercial_id, signed |-> FALSE]))

\* ContractDenied with the commercial_id comparison inverted.
ContractDenied_inverted(contract, current_user, own_msg, dept_msg) ==
    IF is_commercial(current_user)
    THEN IF contract.commercial_id = current_user.id THEN own_msg ELSE ""
    ELSE IF ~is_management(current_user) THEN dept_msg ELSE ""

\* ContractDenied without the refusal of the other departments.
ContractDenied_commercial_only(contract, current_user, own_msg, dept_msg) ==
    IF is_commercial(current_user)
    THEN IF contract.commercial_id # current_user.id THEN own_msg ELSE ""
    ELSE ""

\* The authorization block shared by update_contract, sign_contract and
\* update_payment: "" when the caller may proceed, else the message raised.
ContractDenied(contract, current_user, own_msg, dept_msg) ==
    IF is_commercial(current_user)
    THEN IF contract.commercial_id # current_user.id THEN own_msg ELSE ""
    ELSE IF ~is_management(current_user) THEN dept_msg ELSE ""

update_contract(ct, contract_id, current_user, total_amount, amount_due, signed) ==
    IF ~Exists(ct, contract_id)
    THEN Raise("ValueError", "not found", ct)
    ELSE
    LET contract == ct[contract_id]
        denied == ContractDenied(contract, current_user,
                      "You can only update contracts for your clients",
                      "You don't have permission to update contracts")
        update_data == Given([total_amount |-> total_amount,
                              amount_due |-> amount_due, signed |-> signed])
    IN  IF denied # ""
        THEN Raise("PermissionError", denied, ct)
        ELSE Ok([ct EXCEPT ![contract_id] =
                     BaseRepository_update(contract, update_data)])

\* The telemetry sink behind log_contract_signed: it takes the record
\* ("up"), or the call raises ("down").
Sinks == {"up", "down"}
TelemetryMsg == "telemetry"

\* repo.sign_contract commits the signature; log_contract_signed is called
\* after it, inside the session block and outside any try.
sign_contract(ct, contract_id, current_user, sink) ==
    IF ~Exists(ct, contract_id)
    THEN Raise("ValueError", "not found", ct)
    ELSE
    LET contract == ct[contract_id]
        denied == ContractDenied(contract, current_user,
                      "You can only sign contracts for your clients",
                      "You don't have permission to sign contracts")
        committed == [ct EXCEPT ![contract_id] = Contract_sign_contract(contract)]
    IN  IF denied # ""
        THEN Raise("PermissionError", denied, ct)
        ELSE IF contract.signed
        THEN Raise("ValueError", "Contract is already signed", ct)
        ELSE IF sink = "down"
        THEN Raise("Exception", TelemetryMsg, committed)
        ELSE Ok(committed)

update_payment(ct, contract_id, amount_paid, current_user) ==
    IF ~Exists(ct, contract_id)
    THEN Raise("ValueError", "not found", ct)
    ELSE
    LET contract == ct[contract_id]
        denied == ContractDenied(contract, current_user,
                      "You can only update payments for your contracts",
                      "You don't have permission to update payments")
    IN  IF denied # ""
        THEN Raise("PermissionError", denied, ct)
        ELSE Ok([ct EXCEPT ![contract_id] =
                     Contract_update_payment(contract, amount_paid)])

\* -------------------------------------------------------------- EventService
\* Rows keep contract_id, support_contact_id, the two dates and attendees;
\* name, location and notes are handled exactly as attendees and are left out.
\* create_event without the test of contract.signed.
create_event_unsigned_allowed(ev, ct, contract_id, event_date_start, event_date_end, attendees, current_user) ==
    IF ~has_permission(current_user.department, "create", "event")
    THEN Raise("PermissionError", "You don't have permission to create events", ev)
    ELSE IF ~Exists(ct, contract_id)
    THEN Raise("ValueError", "not found", ev)
    ELSE IF is_commercial(current_user)
            /\ ct[contract_id].commercial_id # current_user.id
    THEN Raise("PermissionError", "You can only create events for your contracts", ev)
    ELSE Ok(Append(ev, [contract_id |-> contract_id,
                        event_date_start |-> event_date_start,
                        event_date_end |-> event_date_end,
                        attendees |-> attendees,
                        support_contact_id |-> None]))

\* create_event with the ownership test moved before the test of contract.signed.
create_event_ownership_first(ev, ct, contract_id, event_date_start, event_date_end, attendees, current_user) ==
    IF ~has_permission(current_user.department, "create", "event")
    THEN Raise("PermissionError", "You don't have permission to create events", ev)
    ELSE IF ~Exists(ct, contract_id)
    THEN Raise("ValueError", "not found", ev)
    ELSE IF is_commercial(current_user)
            /\ ct[contract_id].commercial_id # current_user.id
    THEN Raise("PermissionError", "You can only create events for your contracts", ev)
    ELSE IF ~ct[contract_id].signed
    THEN Raise("ValueError", "Cannot create event for unsigned contract", ev)
    ELSE Ok(Append(ev, [contract_id |-> contract_id,
                        event_date_start |-> event_date_start,
                        event_date_end |-> event_date_end,
                        attendees |-> attendees,
                        support_contact_id |-> None]))

create_event(ev, ct, contract_id, event_date_start, event_date_end, attendees, current_user) ==
    IF ~has_permission(current_user.department, "create", "event")
    THEN Raise("PermissionError", "You don't have permission to create events", ev)
    ELSE IF ~Exists(ct, contract_id)
    THEN Raise("ValueError", "not found", ev)
    ELSE IF ~ct[contract_id].signed
    THEN Raise("ValueError", "Cannot create event for unsigned contract", ev)
    ELSE IF is_commercial(current_user)
            /\ ct[contract_id].commercial_id # current_user.id
    THEN Raise("PermissionError", "You can only create events for your contracts", ev)
    ELSE Ok(Append(ev, [contract_id |-> contract_id,
                        event_date_start |-> event_date_start,
                        event_date_end |-> event_date_end,
                        attendees |-> attendees,
                        support_contact_id |-> None]))

\* update_event without the comparison of support_contact_id to the caller.
update_event_any_support(ev, event_id, current_user, event_date_start, event_date_end, attendees) ==
    IF ~Exists(ev, event_id)
    THEN Raise("ValueError", "not found", ev)
    ELSE
    LET event == ev[event_id]
        update_data == Given([event_date_start |-> event_date_start,
                              event_date_end |-> event_date_end,
                              attendees |-> attendees])
    IN  IF ~is_support(current_user) /\ ~is_management(current_user)
        THEN Raise("PermissionError", "You don't have permission to update events", ev)
        ELSE Ok([ev EXCEPT ![event_id] = BaseRepository_update(event, update_data)])

update_event(ev, event_id, current_user, event_date_start, event_date_end, attendees) ==
    IF ~Exists(ev, event_id)
    THEN Raise("ValueError", "not found", ev)
    ELSE
    LET event == ev[event_id]
        update_data == Given([event_date_start |-> event_date_start,
                              event_date_end |-> event_date_end,
                              attendees |-> attendees])
    IN  IF is_support(current_user) /\ event.support_contact_id # current_user.id
        THEN Raise("PermissionError", "You can only update events assigned to you", ev)
        ELSE IF ~is_support(current_user) /\ ~is_management(current_user)
        THEN Raise("PermissionError", "You don't have permission to update events", ev)
        ELSE Ok([ev EXCEPT ![event_id] = BaseRepository_update(event, update_data)])

\* assign_support_contact without the test of current_user.is_management.
assign_support_contact_any_department(ev, us, event_id, support_contact_id, current_user) ==
    LET support_user ==
            AuthService_get_current_user(us, IntAsToken(support_contact_id))
    IN  IF support_user = {} \/ ~is_support(Val(support_user))
        THEN Raise("ValueError", "Invalid support contact ID", ev)
        ELSE IF ~Exists(ev, event_id)
        THEN Raise("ValueError", "not found", ev)
        ELSE Ok([ev EXCEPT ![event_id].support_contact_id = support_contact_id])

\* The support user is looked up with AuthService.get_current_user, which
\* takes a token: the id is handed to it as it is.
assign_support_contact(ev, us, event_id, support_contact_id, current_user) ==
    IF ~is_management(current_user)
    THEN Raise("PermissionError", "Only management can assign support contacts", ev)
    ELSE
    LET support_user ==
            AuthService_get_current_user(us, IntAsToken(support_contact_id))
    IN  IF support_user = {} \/ ~is_support(Val(support_user))
        THEN Raise("ValueError", "Invalid support contact ID", ev)
        ELSE IF ~Exists(ev, event_id)
        THEN Raise("ValueError", "not found", ev)
        ELSE Ok([ev EXCEPT ![event_id].support_contact_id = support_contact_id])

\* ------------------------------------------------- list queries (repositories)
\* A list call returns the ids of the rows it selects.
Rows(rows) == [err |-> "none", msg |-> "", rows |-> rows]
NoRows(err, msg) == [err |-> err, msg |-> msg, rows |-> {}]

\* get_all(skip: int = 0, limit: int = 100)
get_all_limit == 100

\* select(...).offset(0).limit(100), the rows taken in id order.
BaseRepository_get_all(table) == {i \in DOMAIN table : i <= get_all_limit}

get_by_commercial(table, commercial_id) ==
    {i \in DOMAIN table : table[i].commercial_id = commercial_id}
ContractRepository_get_by_client(ct, client_id) ==
    {i \in DOMAIN ct : ct[i].client_id = client_id}
ContractRepository_get_unsigned_contracts(ct) ==
    {i \in DOMAIN ct : ~ct[i].signed}
ContractRepository_get_unpaid_contracts(ct) ==
    {i \in DOMAIN ct : ct[i].amount_due > 0}
EventRepository_get_by_contract(ev, contract_id) ==
    {i \in DOMAIN ev : ev[i].contract_id = contract_id}
EventRepository_get_by_support_contact(ev, support_contact_id) ==
    {i \in DOMAIN ev : ev[i].support_contact_id = support_contact_id}
EventRepository_get_events_without_support(ev) ==
    {i \in DOMAIN ev : ev[i].support_contact_id = None}
EventRepository_get_upcoming_events(ev, now) ==
    {i \in DOMAIN ev : ev[i].event_date_start > now}
EventRepository_get_past_events(ev, now) ==
    {i \in DOMAIN ev : ev[i].event_date_end < now}

list_clients(cl, current_user, filter_commercial_id) ==
    IF ~has_permission(current_user.department, "read", "client")
    THEN NoRows("PermissionError", "You don't have permission to view clients")
    ELSE IF filter_commercial_id # {} /\ Val(filter_commercial_id) # 0
    THEN Rows(get_by_commercial(cl, Val(filter_commercial_id)))
    ELSE IF is_commercial(current_user)
    THEN Rows(get_by_commercial(cl, current_user.id))
    ELSE Rows(BaseRepository_get_all(cl))

list_contracts(ct, current_user, unsigned_only, unpaid_only, client_id) ==
    IF ~has_permission(current_user.department, "read", "contract")
    THEN NoRows("PermissionError", "You don't have permission to view contracts")
    ELSE IF unsigned_only
    THEN Rows(ContractRepository_get_unsigned_contracts(ct))
    ELSE IF unpaid_only
    THEN Rows(ContractRepository_get_unpaid_contracts(ct))
    ELSE IF client_id # {} /\ Val(client_id) # 0
    THEN Rows(ContractRepository_get_by_client(ct, Val(client_id)))
    ELSE IF is_commercial(current_user)
    THEN Rows(get_by_commercial(ct, current_user.id))
    ELSE Rows(BaseRepository_get_all(ct))

\* now: datetime.utcnow() as read by the upcoming and past queries.
list_events(ev, current_user, without_support, upcoming_only, past_only, contract_id, now) ==
    IF ~has_permission(current_user.department, "read", "event")
    THEN NoRows("PermissionError", "You don't have permission to view events")
    ELSE IF without_support
    THEN Rows(EventRepository_get_events_without_support(ev))
    ELSE IF upcoming_only
    THEN Rows(EventRepository_get_upcoming_events(ev, now))
    ELSE IF past_only
    THEN Rows(EventRepository_get_past_events(ev, now))
    ELSE IF contract_id # {} /\ Val(contract_id) # 0
    THEN Rows(EventRepository_get_by_contract(ev, Val(contract_id)))
    ELSE IF is_support(current_user)
    THEN Rows(EventRepository_get_by_support_contact(ev, current_user.id))
    ELSE Rows(BaseRepository_get_all(ev))

\* ==================================================================== state
\* users, clients, contracts, events: the four tables.
\* last: the most recent service call and how it ended (the exception raised
\*       and its message, or "none").
\* perm: the most recent has_permission query and its answer.
\* signed_once: history, the contracts on which sign_contract has succeeded.
\* listed: the ids of the rows the most recent list call returned.
\* calls: the contract calls in flight, one per process: the call, where it
\*        stands and the row its session has loaded.

NoCall == [op |-> "none", err |-> "none", msg |-> ""]

\* Two processes, each with a session of its own (get_session opens one per
\* call). calls holds the latest call of each process that reached the
\* repository: it has fetched its contract and passed the checks of the
\* service ("fetched"), or has committed ("done").
Procs == {1, 2}
Other(p) == CHOOSE q \in Procs : q # p
NoCalls == [p \in {} |-> None]
InFlight(p) == p \in DOMAIN calls /\ calls[p].pc = "fetched"
NoQuery == [department |-> "", action |-> "", resource |-> "", allowed |-> FALSE]

Called(op, r) == [op |-> op, err |-> r.err, msg |-> r.msg]

UserRow(department) == [department |-> department, is_active |-> TRUE]

\* The users of the test fixtures: a manager, two commercials and a support
\* (a manager, two supports and two commercials where events are concerned).
SeedUsers ==
    <<UserRow(MANAGEMENT), UserRow(COMMERCIAL), UserRow(COMMERCIAL),
      UserRow(SUPPORT)>>
SeedEventUsers ==
    <<UserRow(MANAGEMENT), UserRow(COMMERCIAL), UserRow(SUPPORT),
      UserRow(SUPPORT), UserRow(COMMERCIAL)>>

\* sample_client, signed_contract and sample_event of tests/conftest.py
\* (10000.00 / 5000.00 scaled to 2 / 1), and a second, unsigned contract.
SeedClients ==
    <<[full_name |-> "n1", email |-> "a", commercial_id |-> 2]>>
SeedContracts ==
    <<[client_id |-> 1, commercial_id |-> 2, total_amount |-> 2,
       amount_due |-> 1, signed |-> TRUE],
      [client_id |-> 1, commercial_id |-> 2, total_amount |-> 2,
       amount_due |-> 2, signed |-> FALSE]>>
SeedEvents ==
    <<[contract_id |-> 1, event_date_start |-> 1, event_date_end |-> 2,
       attendees |-> 10, support_contact_id |-> 3]>>

\* A contracts table one row longer than get_all's limit: the contracts of
\* the two commercials of SeedEventUsers, some signed, some paid.
ManyContracts ==
    [i \in 1..(get_all_limit + 1) |->
        [client_id |-> 1,
         commercial_id |-> IF i % 2 = 0 THEN 2 ELSE 5,
         total_amount |-> 2, amount_due |-> i % 3,
         signed |-> (i % 4 < 2)]]

\* sample_event with each choice of support contact: none, or one of the
\* two supports of SeedEventUsers.
SeedEvent(support_contact_id) ==
    [contract_id |-> 1, event_date_start |-> 1, event_date_end |-> 2,
     attendees |-> 10, support_contact_id |-> support_contact_id]

\* The clock read by list_events, before, between and after the Dates.
Nows == {0, 1, 2, 3}
\* The ids given as a list filter: rows of the fixtures and one id beyond.
FilterIds == {1, 2, 3}

\* The store after init_database() and the creation of the users.
Init ==
    /\ users = SeedUsers
    /\ clients = <<>>
    /\ contracts = <<>>
    /\ events = <<>>
    /\ last = NoCall
    /\ perm = NoQuery
    /\ signed_once = {}
    /\ listed = {}
    /\ calls = NoCalls

\* ------------------------------------------------------------------ actions
CreateClient ==
    /\ Len(clients) < MaxClients
    /\ \E u \in Callers, full_name \in Names, email \in Emails,
          commercial_id \in CommercialIds :
          LET r == create_client(clients, full_name, email, commercial_id, u)
          IN  /\ clients' = r.db
              /\ last' = Called("create_client", r)
    /\ UNCHANGED <<users, contracts, events, perm, signed_once, listed, calls>>

UpdateClient ==
    /\ \E u \in Callers, client_id \in IdArgs(clients),
          full_name \in Opt(Names), email \in Opt(Emails),
          commercial_id \in Opt(CommercialIds) :
          LET r == update_client(clients, client_id, u, full_name, email,
                                 commercial_id)
          IN  /\ clients' = r.db
              /\ last' = Called("update_client", r)
    /\ UNCHANGED <<users, contracts, events, perm, signed_once, listed, calls>>

CreateContract ==
    /\ Len(contracts) < MaxContracts
    /\ \E u \in Callers, client_id \in IdArgs(clients),
          total_amount \in Amounts, amount_due \in Amounts,
          commercial_id \in CommercialIds :
          LET r == create_contract(contracts, clients, client_id, total_amount,
                                   amount_due, commercial_id, u)
          IN  /\ contracts' = r.db
              /\ last' = Called("create_contract", r)
    /\ UNCHANGED <<users, clients, events, perm, signed_once, listed, calls>>

UpdateContract ==
    /\ \E u \in Callers, contract_id \in IdArgs(contracts),
          total_amount \in Opt(Amounts), amount_due \in Opt(Amounts),
          signed \in Opt(BOOLEAN) :
          LET r == update_contract(contracts, contract_id, u, total_amount,
                                   amount_due, signed)
          IN  /\ contracts' = r.db
              /\ last' = Called("update_contract", r)
    /\ UNCHANGED <<users, clients, events, perm, signed_once, listed, calls>>

SignCall(u, contract_id, sink) ==
    LET r == sign_contract(contracts, contract_id, u, sink)
    IN  /\ contracts' = r.db
        /\ last' = Called("sign_contract", r)

SignContract ==
    /\ \E u \in Callers, contract_id \in IdArgs(contracts), sink \in Sinks :
          SignCall(u, contract_id, sink)
    /\ UNCHANGED <<users, clients, events, perm, signed_once, listed, calls>>

\* SignContract, with the history of successful signings kept.
SignContractRecorded ==
    /\ \E u \in Callers, contract_id \in IdArgs(contracts), sink \in Sinks :
          /\ SignCall(u, contract_id, sink)
          /\ signed_once' =
                 IF sign_contract(contracts, contract_id, u, sink).err = "none"
                 THEN signed_once \cup {contract_id}
                 ELSE signed_once
    /\ UNCHANGED <<users, clients, events, perm, listed, calls>>

UpdatePayment ==
    /\ \E u \in Callers, contract_id \in IdArgs(contracts),
          amount_paid \in Amounts :
          LET r == update_payment(contracts, contract_id, amount_paid, u)
          IN  /\ contracts' = r.db
              /\ last' = Called("update_payment", r)
    /\ UNCHANGED <<users, clients, events, perm, signed_once, listed, calls>>

CreateEvent ==
    /\ Len(events) < MaxEvents
    /\ \E u \in Callers, contract_id \in IdArgs(contracts),
          event_date_start \in Dates, event_date_end \in Dates,
          attendees \in Attendees :
          LET r == create_event(events, contracts, contract_id,
                                event_date_start, event_date_end, attendees, u)
          IN  /\ events' = r.db
              /\ last' = Called("create_event", r)
    /\ UNCHANGED <<users, clients, contracts, perm, signed_once, listed, calls>>

UpdateEvent ==
    /\ \E u \in Callers, event_id \in IdArgs(events),
          event_date_start \in Opt(Dates), event_date_end \in Opt(Dates),
          attendees \in Opt(Attendees) :
          LET r == update_event(events, event_id, u, event_date_start,
                                event_date_end, attendees)
          IN  /\ events' = r.db
              /\ last' = Called("update_event", r)
    /\ UNCHANGED <<users, clients, contracts, perm, signed_once, listed, calls>>

AssignSupportContact ==
    /\ \E u \in Callers, event_id \in IdArgs(events),
          support_contact_id \in IdArgs(users) :
          LET r == assign_support_contact(events, users, event_id,
                                          support_contact_id, u)
          IN  /\ events' = r.db
              /\ last' = Called("assign_support_contact", r)
    /\ UNCHANGED <<users, clients, contracts, perm, signed_once, listed, calls>>

\* A call of the function decorated with require_auth, require_department
\* or require_permission, with whatever the token file holds.
RequireAuth ==
    /\ Len(clients) < MaxClients
    /\ \E token_file \in TokenFiles(users), kwargs \in KwargsArgs,
          email \in Emails :
          LET r == require_auth(users, token_file, kwargs, clients, email)
          IN  /\ clients' = r.db
              /\ last' = Called("require_auth", r)
    /\ UNCHANGED <<users, contracts, events, perm, signed_once, listed, calls>>

RequireDepartment ==
    /\ Len(clients) < MaxClients
    /\ \E departments \in SUBSET Department,
          token_file \in TokenFiles(users), kwargs \in KwargsArgs,
          email \in Emails :
          LET r == require_department(departments, users, token_file, kwargs,
                                      clients, email)
          IN  /\ clients' = r.db
              /\ last' = Called("require_department", r)
    /\ UNCHANGED <<users, contracts, events, perm, signed_once, listed, calls>>

RequirePermission ==
    /\ Len(clients) < MaxClients
    /\ \E action \in Actions, resource \in Resources,
          token_file \in TokenFiles(users), kwargs \in KwargsArgs,
          email \in Emails :
          LET r == require_permission(action, resource, users, token_file,
                                      kwargs, clients, email)
          IN  /\ clients' = r.db
              /\ last' = Called("require_permission", r)
    /\ UNCHANGED <<users, contracts, events, perm, signed_once, listed, calls>>

ListClients ==
    /\ \E u \in Callers, filter_commercial_id \in Opt(UserIds) :
          LET r == list_clients(clients, u, filter_commercial_id)
          IN  /\ listed' = r.rows
              /\ last' = Called("list_clients", r)
    /\ UNCHANGED <<users, clients, contracts, events, perm, signed_once, calls>>

ListContracts ==
    /\ \E u \in Callers, unsigned_only \in BOOLEAN, unpaid_only \in BOOLEAN,
          client_id \in Opt(FilterIds) :
          LET r == list_contracts(contracts, u, unsigned_only, unpaid_only,
                                  client_id)
          IN  /\ listed' = r.rows
              /\ last' = Called("list_contracts", r)
    /\ UNCHANGED <<users, clients, contracts, events, perm, signed_once, calls>>

ListEvents ==
    /\ \E u \in Callers, without_support \in BOOLEAN,
          upcoming_only \in BOOLEAN, past_only \in BOOLEAN,
          contract_id \in Opt(FilterIds), now \in Nows :
          LET r == list_events(events, u, without_support, upcoming_only,
                               past_only, contract_id, now)
          IN  /\ listed' = r.rows
              /\ last' = Called("list_events", r)
    /\ UNCHANGED <<users, clients, contracts, events, perm, signed_once, calls>>

UpdateUser ==
    /\ \E user_id \in IdArgs(users), department \in Opt(Department),
          is_active \in Opt(BOOLEAN) :
          LET r == AuthService_update_user(users, user_id, department,
                                           is_active)
          IN  /\ users' = r.db
              /\ last' = Called("update_user", r)
    /\ UNCHANGED <<clients, contracts, events, perm, signed_once, listed,
                   calls>>

DeleteUser ==
    /\ \E user_id \in IdArgs(users) :
          LET r == AuthService_delete_user(users, clients, contracts, events,
                                           user_id)
          IN  /\ users' = r.users
              /\ clients' = r.clients
              /\ contracts' = r.contracts
              /\ events' = r.events
              /\ last' = [op |-> "delete_user", err |-> "none",
                          msg |-> IF r.deleted THEN "True" ELSE "False"]
    /\ UNCHANGED <<perm, signed_once, listed, calls>>

\* User.has_permission asked for any department, action and resource name.
HasPermission ==
    /\ \E d \in AnyDepartment, a \in AnyAction, r \in AnyResource :
          perm' = [department |-> d, action |-> a, resource |-> r,
                   allowed |-> has_permission(d, a, r)]
    /\ UNCHANGED <<users, clients, contracts, events, last, signed_once, listed,
                   calls>>

\* ---- update_payment and sign_contract as two steps each, per process.
\* The service reads the contract into its session and makes its checks;
\* the repository then changes the object the session holds (get_by_id answers
\* from the session, it does not read the table again) and commits. Nothing
\* locks the row between the two steps.

\* The call of process p passed the checks with the row as it is now.
Begin(p, op, contract_id, amount_paid) ==
    LET q == Other(p)
        racing == /\ InFlight(q)
                  /\ calls[q].op = op
                  /\ calls[q].contract_id = contract_id
    IN  calls' = [x \in DOMAIN calls \cup {p} |->
                    IF x = p
                    THEN [op |-> op, pc |-> "fetched",
                          contract_id |-> contract_id,
                          amount_paid |-> amount_paid,
                          row |-> contracts[contract_id],
                          overlapped |-> racing, err |-> "none"]
                    ELSE [calls[x] EXCEPT !.overlapped = @ \/ racing]]

\* session.commit() of an object loaded as `loaded` and now `changed`: the
\* UPDATE sets the columns whose value was changed, and only those.
Flush(ct, contract_id, loaded, changed) ==
    [ct EXCEPT ![contract_id] =
        [k \in DOMAIN @ |-> IF changed[k] # loaded[k] THEN changed[k] ELSE @[k]]]

\* ContractService.update_payment up to the call of the repository.
PaymentFetch(p) ==
    /\ ~InFlight(p)
    /\ \E u \in Callers, contract_id \in IdArgs(contracts),
          amount_paid \in Amounts :
          LET r == update_payment(contracts, contract_id, amount_paid, u)
          IN  IF r.err # "none"
              THEN /\ last' = Called("update_payment", r)
                   /\ UNCHANGED calls
              ELSE /\ Begin(p, "update_payment", contract_id, amount_paid)
                   /\ UNCHANGED last
    /\ UNCHANGED <<users, clients, contracts, events, perm, signed_once, listed>>

\* ContractRepository.update_payment
PaymentPersist(p) ==
    /\ InFlight(p)
    /\ calls[p].op = "update_payment"
    /\ LET c == calls[p]
       IN  contracts' = Flush(contracts, c.contract_id, c.row,
                              Contract_update_payment(c.row, c.amount_paid))
    /\ calls' = [calls EXCEPT ![p].pc = "done"]
    /\ last' = [op |-> "update_payment", err |-> "none", msg |-> ""]
    /\ UNCHANGED <<users, clients, events, perm, signed_once, listed>>

\* ContractService.sign_contract up to the call of the repository.
SignFetch(p) ==
    /\ ~InFlight(p)
    /\ \E u \in Callers, contract_id \in IdArgs(contracts) :
          LET r == sign_contract(contracts, contract_id, u, "up")
          IN  IF r.err # "none"
              THEN /\ last' = Called("sign_contract", r)
                   /\ UNCHANGED calls
              ELSE /\ Begin(p, "sign_contract", contract_id, 0)
                   /\ UNCHANGED last
    /\ UNCHANGED <<users, clients, contracts, events, perm, signed_once, listed>>

\* ContractRepository.sign_contract, then log_contract_signed.
SignPersist(p) ==
    /\ InFlight(p)
    /\ calls[p].op = "sign_contract"
    /\ LET c == calls[p]
       IN  contracts' = Flush(contracts, c.contract_id, c.row,
                              Contract_sign_contract(c.row))
    /\ \E sink \in Sinks :
          LET err == IF sink = "down" THEN "Exception" ELSE "none"
          IN  /\ calls' = [calls EXCEPT ![p].pc = "done", ![p].err = err]
              /\ last' = [op |-> "sign_contract", err |-> err,
                          msg |-> IF sink = "down" THEN TelemetryMsg ELSE ""]
    /\ UNCHANGED <<users, clients, events, perm, signed_once, listed>>

Next ==
    \/ CreateClient
    \/ UpdateClient
    \/ CreateContract
    \/ UpdateContract
    \/ SignContract
    \/ UpdatePayment
    \/ CreateEvent
    \/ UpdateEvent
    \/ AssignSupportContact
    \/ ListClients
    \/ ListContracts
    \/ ListEvents
    \/ RequireAuth
    \/ RequireDepartment
    \/ RequirePermission
    \/ HasPermission
    \/ UpdateUser
    \/ DeleteUser
    \/ \E p \in Procs : PaymentFetch(p) \/ PaymentPersist(p)
    \/ \E p \in Procs : SignFetch(p) \/ SignPersist(p)

\* Every operation on a store that starts empty.
Spec == Init /\ [][Next]_vars

\* ------------------------------------------------- one service at a time
\* The tables a service only reads are fixed at the fixture rows.

\* has_permission alone.
NextPerm == HasPermission
SpecPerm == Init /\ [][NextPerm]_vars

\* ClientService.
NextClient == CreateClient \/ UpdateClient
SpecClient == Init /\ [][NextClient]_vars

\* The decorators of utils/permissions around a function.
NextAuth == RequireAuth \/ RequireDepartment \/ RequirePermission
SpecAuth == Init /\ [][NextAuth]_vars

\* ContractService, for the client of the fixtures.
InitContract ==
    /\ users = SeedUsers
    /\ clients = SeedClients
    /\ contracts = <<>>
    /\ events = <<>>
    /\ last = NoCall
    /\ perm = NoQuery
    /\ signed_once = {}
    /\ listed = {}
    /\ calls = NoCalls

NextContract == CreateContract \/ UpdateContract \/ SignContract \/ UpdatePayment
SpecContract == InitContract /\ [][NextContract]_vars

\* The creation of contracts and their signature.
NextContractCreation == CreateContract \/ SignContract
SpecContractCreation == InitContract /\ [][NextContractCreation]_vars

\* ContractService with the signing history.
NextSigning ==
    CreateContract \/ UpdateContract \/ SignContractRecorded \/ UpdatePayment
SpecSigning == InitContract /\ [][NextSigning]_vars

\* EventService, for the contracts of the fixtures.
InitEvent ==
    /\ users = SeedEventUsers
    /\ clients = SeedClients
    /\ contracts = SeedContracts
    /\ events = SeedEvents
    /\ last = NoCall
    /\ perm = NoQuery
    /\ signed_once = {}
    /\ listed = {}
    /\ calls = NoCalls

NextEvent == CreateEvent \/ UpdateEvent \/ AssignSupportContact
SpecEvent == InitEvent /\ [][NextEvent]_vars

\* The administration of users while an event is assigned: the manager, the
\* commercial and the support of the fixtures, with sample_event assigned to
\* the support.
SeedStaff == <<UserRow(MANAGEMENT), UserRow(COMMERCIAL), UserRow(SUPPORT)>>

InitUsers ==
    /\ users = SeedStaff
    /\ clients = SeedClients
    /\ contracts = SeedContracts
    /\ events = SeedEvents
    /\ last = NoCall
    /\ perm = NoQuery
    /\ signed_once = {}
    /\ listed = {}
    /\ calls = NoCalls

NextUsers == UpdateUser \/ DeleteUser \/ UpdateEvent \/ AssignSupportContact
SpecUsers == InitUsers /\ [][NextUsers]_vars

\* Two processes paying and signing the contracts of the fixtures at the
\* same time.
InitRace ==
    /\ users = SeedUsers
    /\ clients = SeedClients
    /\ contracts = SeedContracts
    /\ events = <<>>
    /\ last = NoCall
    /\ perm = NoQuery
    /\ signed_once = {}
    /\ listed = {}
    /\ calls = NoCalls

NextRace ==
    \/ \E p \in Procs : PaymentFetch(p) \/ PaymentPersist(p)
    \/ \E p \in Procs : SignFetch(p) \/ SignPersist(p)
SpecRace == InitRace /\ [][NextRace]_vars

\* The list calls, on the clients the commercials create, on the contracts
\* of the fixtures or a table longer than get_all's limit, and on two events
\* with every choice of support contacts.
InitList ==
    /\ users = SeedEventUsers
    /\ clients = SeedClients
    /\ contracts \in {SeedContracts, ManyContracts}
    /\ events \in {<<SeedEvent(s1), SeedEvent(s2)>> : s1, s2 \in {None, 3, 4}}
    /\ last = NoCall
    /\ perm = NoQuery
    /\ signed_once = {}
    /\ listed = {}
    /\ calls = NoCalls

NextList == CreateClient \/ ListClients \/ ListContracts \/ ListEvents
SpecList == InitList /\ [][NextList]_vars

\* ==================================================================== claims

\* The table of section 4.1, as (department, action, resource) triples.
MatrixRow(d, a, rs) == {<<d, a, r>> : r \in rs}
PermissionTable ==
    MatrixRow(MANAGEMENT, "create", {"user", "contract", "event"})
    \cup MatrixRow(MANAGEMENT, "update", {"user", "contract", "event"})
    \cup MatrixRow(MANAGEMENT, "delete", {"user"})
    \cup MatrixRow(MANAGEMENT, "read", {"user", "client", "contract", "event"})
    \cup MatrixRow(COMMERCIAL, "create", {"client", "event"})
    \cup MatrixRow(COMMERCIAL, "update", {"client", "contract"})
    \cup MatrixRow(COMMERCIAL, "read", {"client", "contract", "event"})
    \cup MatrixRow(SUPPORT, "update", {"event"})
    \cup MatrixRow(SUPPORT, "read", {"client", "contract", "event"})

Known(q) ==
    q.department \in Department /\ q.action \in Actions /\ q.resource \in Resources

\* C1: for the three departments, four actions and four resources,
\* has_permission answers true exactly for the pairs the table of section 4.1
\* lists for the department.
C1_MatrixMatchesTable ==
    Known(perm) =>
        (perm.allowed <=> <<perm.department, perm.action, perm.resource>> \in PermissionTable)

\* A listed pair has been asked and allowed.
C1_Witness ==
    /\ perm.department = COMMERCIAL /\ perm.action = "update"
    /\ perm.resource = "contract" /\ perm.allowed

\* C2: a query with an unknown department, action or resource is denied.
C2_FailClosed ==
    (perm # NoQuery /\ ~Known(perm)) => ~perm.allowed

C2_Witness ==
    /\ perm.department = "INTERN" /\ perm.action = "read"
    /\ perm.resource = "client" /\ ~perm.allowed

\* --- argument tuples of the services, for the claims about every call
ClientUpdateArgs == Opt(Names) \X Opt(Emails) \X Opt(CommercialIds)
ContractUpdateArgs == Opt(Amounts) \X Opt(Amounts) \X Opt(BOOLEAN)
EventUpdateArgs == Opt(Dates) \X Opt(Dates) \X Opt(Attendees)

Succeeds(r) == r.err = "none"
Denied(r) == r.err = "PermissionError"

\* C3: a create/update operation of a service succeeds for a caller only if
\* the permission matrix allows the caller's department the operation's
\* (action, resource) pair.
C3_OwnershipOnlyNarrows ==
    \A u \in Callers :
        /\ \A n \in Names, e \in Emails, c \in CommercialIds :
              Succeeds(create_client(clients, n, e, c, u))
                  => has_permission(u.department, "create", "client")
        /\ \A id \in DOMAIN clients, a \in ClientUpdateArgs :
              Succeeds(update_client(clients, id, u, a[1], a[2], a[3]))
                  => has_permission(u.department, "update", "client")
        /\ \A id \in DOMAIN clients, t \in Amounts, d \in Amounts,
              c \in CommercialIds :
              Succeeds(create_contract(contracts, clients, id, t, d, c, u))
                  => has_permission(u.department, "create", "contract")
        /\ \A id \in DOMAIN contracts :
              /\ \A a \in ContractUpdateArgs :
                    Succeeds(update_contract(contracts, id, u, a[1], a[2], a[3]))
                        => has_permission(u.department, "update", "contract")
              /\ \A sink \in Sinks :
                    Succeeds(sign_contract(contracts, id, u, sink))
                        => has_permission(u.department, "update", "contract")
              /\ \A p \in Amounts :
                    Succeeds(update_payment(contracts, id, p, u))
                        => has_permission(u.department, "update", "contract")
              /\ \A s \in Dates, e \in Dates, n \in Attendees :
                    Succeeds(create_event(events, contracts, id, s, e, n, u))
                        => has_permission(u.department, "create", "event")
        /\ \A id \in DOMAIN events, a \in EventUpdateArgs :
              Succeeds(update_event(events, id, u, a[1], a[2], a[3]))
                  => has_permission(u.department, "update", "event")

\* The email argument is given and is the email of another client.
EmailOfAnother(cl, id, email) ==
    email # {} /\ \E j \in DOMAIN cl : j # id /\ cl[j].email = Val(email)

OwnClientMsg == "You can only update your own clients"

\* C4 as stated: for a COMMERCIAL caller update_client succeeds exactly on
\* the caller's own clients and otherwise raises the permission failure.
C4_CommercialUpdatesOwnClientOnly ==
    \A u \in Callers, id \in DOMAIN clients, a \in ClientUpdateArgs :
        LET r == update_client(clients, id, u, a[1], a[2], a[3])
        IN  is_commercial(u) =>
              /\ Succeeds(r) <=> clients[id].commercial_id = u.id
              /\ ~Succeeds(r) => (Denied(r) /\ r.msg = OwnClientMsg /\ r.db = clients)

\* C4 (amended): a COMMERCIAL caller is denied ("only update your own
\* clients") exactly on clients of another owner, and succeeds exactly on an
\* own client when the email argument is not the email of another client;
\* a MANAGEMENT caller is never denied, a SUPPORT caller always is, and a
\* call that fails leaves the clients unchanged.
C4_ClientOwnership ==
    \A u \in Callers, id \in DOMAIN clients, a \in ClientUpdateArgs :
        LET r == update_client(clients, id, u, a[1], a[2], a[3])
            own == clients[id].commercial_id = u.id
        IN  /\ is_commercial(u) =>
                  /\ Denied(r) <=> ~own
                  /\ Denied(r) => r.msg = OwnClientMsg
                  /\ Succeeds(r) <=> (own /\ ~EmailOfAnother(clients, id, a[2]))
            /\ is_management(u) =>
                  /\ ~Denied(r)
                  /\ Succeeds(r) <=> ~EmailOfAnother(clients, id, a[2])
            /\ is_support(u) => Denied(r)
            /\ ~Succeeds(r) => r.db = clients

\* A COMMERCIAL caller has just been refused a client of another owner.
C4_Witness ==
    /\ last.op = "update_client" /\ last.err = "PermissionError"
    /\ last.msg = OwnClientMsg

AssignedEventMsg == "You can only update events assigned to you"

\* C5: for a SUPPORT caller update_event succeeds exactly on the events whose
\* support_contact_id is the caller's id, and otherwise raises the permission
\* failure and leaves the events unchanged; a MANAGEMENT caller succeeds on
\* any event; a COMMERCIAL caller is always denied.
C5_EventAssignment ==
    \A u \in Callers, id \in DOMAIN events, a \in EventUpdateArgs :
        LET r == update_event(events, id, u, a[1], a[2], a[3])
        IN  /\ is_support(u) =>
                  /\ Succeeds(r) <=> events[id].support_contact_id = u.id
                  /\ ~Succeeds(r) =>
                        (Denied(r) /\ r.msg = AssignedEventMsg /\ r.db = events)
            /\ is_management(u) => Succeeds(r)
            /\ is_commercial(u) => (Denied(r) /\ r.db = events)

\* A SUPPORT caller has just been refused an event that is assigned to
\* another support user.
C5_Witness ==
    /\ last.op = "update_event" /\ last.err = "PermissionError"
    /\ last.msg = AssignedEventMsg
    /\ \E id \in DOMAIN events : events[id].support_contact_id # None

MayTouchContract(u, contract) ==
    \/ u.department = MANAGEMENT
    \/ u.department = COMMERCIAL /\ contract.commercial_id = u.id

\* C6: update_contract, sign_contract and update_payment on an existing
\* contract are denied exactly when the caller is neither MANAGEMENT nor the
\* COMMERCIAL whose id is contract.commercial_id (so always for SUPPORT), and
\* a denied call leaves the contracts unchanged.
C6_ContractOwnership ==
    \A u \in Callers, id \in DOMAIN contracts :
        LET Rule(r) ==
                /\ Denied(r) <=> ~MayTouchContract(u, contracts[id])
                /\ Denied(r) => r.db = contracts
        IN  /\ \A a \in ContractUpdateArgs :
                  Rule(update_contract(contracts, id, u, a[1], a[2], a[3]))
            /\ \A sink \in Sinks : Rule(sign_contract(contracts, id, u, sink))
            /\ \A p \in Amounts : Rule(update_payment(contracts, id, p, u))

\* A COMMERCIAL caller has just been refused a payment on a contract of
\* another commercial.
C6_Witness ==
    /\ last.op = "update_payment" /\ last.err = "PermissionError"
    /\ last.msg = "You can only update payments for your contracts"

\* C7: once a contract is signed it is signed in every later state.
C7_SignedMonotone ==
    [][\A id \in DOMAIN contracts : contracts[id].signed => contracts'[id].signed]_vars

\* C8: sign_contract by an authorized caller signs an unsigned contract, and
\* on a contract that sign_contract has signed every later sign_contract call
\* of an authorized caller fails with "already signed" and changes nothing
\* (the telemetry sink taking its records).
C8_SignOnlyOnce ==
    \A u \in Callers, id \in DOMAIN contracts :
        LET r == sign_contract(contracts, id, u, "up")
        IN  MayTouchContract(u, contracts[id]) =>
              /\ ~contracts[id].signed => (Succeeds(r) /\ r.db[id].signed)
              /\ id \in signed_once =>
                    /\ r.err = "ValueError"
                    /\ r.msg = "Contract is already signed"
                    /\ r.db = contracts

\* C9: every contract has 0 <= amount_due <= total_amount.
C9_AmountDueInRange ==
    \A id \in DOMAIN contracts :
        /\ 0 <= contracts[id].amount_due
        /\ contracts[id].amount_due <= contracts[id].total_amount

\* C10: a payment of a on a contract whose amount_due is d leaves
\* amount_due = max(0, d - a), signed or not.
C10_PaymentSubtractsFromDue ==
    \A u \in Callers, id \in DOMAIN contracts, a \in Amounts :
        LET r == update_payment(contracts, id, a, u)
        IN  Succeeds(r) =>
              r.db[id].amount_due = Max(0, contracts[id].amount_due - a)

\* --- arguments of create_event other than the contract and the caller
EventCreateArgs == Dates \X Dates \X Attendees

UnsignedMsg == "Cannot create event for unsigned contract"
NoCreateEventMsg == "You don't have permission to create events"
OwnContractMsg == "You can only create events for your contracts"

\* C11 as stated: create_event on an existing unsigned contract fails with
\* the unsigned-contract violation for a caller of any department and id, and
\* persists no event.
C11_UnsignedRejectedForAnyCaller ==
    \A u \in Callers, id \in DOMAIN contracts, a \in EventCreateArgs :
        LET r == create_event(events, contracts, id, a[1], a[2], a[3], u)
        IN  ~contracts[id].signed =>
              /\ r.err = "ValueError" /\ r.msg = UnsignedMsg
              /\ r.db = events

\* C11 (amended): create_event on an existing unsigned contract fails for
\* every caller and persists no event; the failure is the unsigned-contract
\* violation for a caller whose department may create events (MANAGEMENT, and
\* COMMERCIAL whether owner or not), and the permission failure for a caller
\* whose department may not (SUPPORT).
C11_UnsignedRejected ==
    \A u \in Callers, id \in DOMAIN contracts, a \in EventCreateArgs :
        LET r == create_event(events, contracts, id, a[1], a[2], a[3], u)
        IN  ~contracts[id].signed =>
              /\ r.db = events
              /\ (is_management(u) \/ is_commercial(u)) =>
                    (r.err = "ValueError" /\ r.msg = UnsignedMsg)
              /\ is_support(u) => (Denied(r) /\ r.msg = NoCreateEventMsg)

\* create_event has just been refused on an unsigned contract.
C11_Witness ==
    /\ last.op = "create_event" /\ last.err = "ValueError"
    /\ last.msg = UnsignedMsg
    /\ \E id \in DOMAIN contracts : ~contracts[id].signed

\* C12: create_event reports the first failing check in the order coarse
\* permission, contract existence, contract signed, ownership, and persists
\* the event only when all four pass.
C12_CheckOrder ==
    \A u \in Callers, id \in IdArgs(contracts), a \in EventCreateArgs :
        LET r == create_event(events, contracts, id, a[1], a[2], a[3], u)
            permitted == has_permission(u.department, "create", "event")
            found == Exists(contracts, id)
            foreign == is_commercial(u) /\ contracts[id].commercial_id # u.id
        IN  /\ ~permitted => (Denied(r) /\ r.msg = NoCreateEventMsg)
            /\ (permitted /\ ~found) =>
                  (r.err = "ValueError" /\ r.msg = "not found")
            /\ (permitted /\ found /\ ~contracts[id].signed) =>
                  (r.err = "ValueError" /\ r.msg = UnsignedMsg)
            /\ (permitted /\ found /\ contracts[id].signed /\ foreign) =>
                  (Denied(r) /\ r.msg = OwnContractMsg)
            /\ (permitted /\ found /\ contracts[id].signed /\ ~foreign) =>
                  (Succeeds(r) /\ Len(r.db) = Len(events) + 1)
            /\ ~Succeeds(r) => r.db = events

\* A COMMERCIAL caller has just been refused an event on a signed contract of
\* another commercial, while an unsigned contract of that other commercial
\* exists.
C12_Witness ==
    /\ last.op = "create_event" /\ last.err = "PermissionError"
    /\ last.msg = OwnContractMsg
    /\ \E id \in DOMAIN contracts :
          /\ ~contracts[id].signed
          /\ \E u \in Callers :
                is_commercial(u) /\ contracts[id].commercial_id # u.id

\* C13: create_client by a permitted caller fails with "already exists" and
\* adds nothing when a client holds the email, and adds the client when none
\* does; create_client by any caller adds nothing when a client holds the
\* email; and no two clients ever have the same email.
C13_EmailsUnique ==
    /\ EmailUnique(clients)
    /\ \A u \in Callers, n \in Names, e \in Emails, c \in CommercialIds :
          LET r == create_client(clients, n, e, c, u)
              held == \E i \in DOMAIN clients : clients[i].email = e
              permitted == has_permission(u.department, "create", "client")
          IN  /\ held => r.db = clients
              /\ (held /\ permitted) =>
                    (r.err = "ValueError" /\ r.msg = "already exists")
              /\ (~held /\ permitted) =>
                    /\ Succeeds(r)
                    /\ Len(r.db) = Len(clients) + 1
                    /\ r.db[Len(r.db)].email = e
                    /\ EmailUnique(r.db)
    /\ \A u \in Callers, id \in DOMAIN clients, a \in ClientUpdateArgs :
          EmailUnique(update_client(clients, id, u, a[1], a[2], a[3]).db)

\* create_client has just been refused for an email that a client holds.
C13_Witness ==
    /\ last.op = "create_client" /\ last.err = "ValueError"
    /\ last.msg = "already exists"
    /\ clients # <<>>

OnlyManagementMsg == "Only management can assign support contacts"

\* The events of ev keep their support_contact_id in ev2.
SupportContactsKept(ev, ev2) ==
    \A i \in DOMAIN ev :
        i \in DOMAIN ev2 /\ ev2[i].support_contact_id = ev[i].support_contact_id

\* C14: assign_support_contact by a COMMERCIAL or SUPPORT caller fails with
\* the permission failure whatever the event id and the support id (existing
\* or not), and no EventService operation called by a non-MANAGEMENT caller
\* changes the support_contact_id of an event.
C14_AssignOnlyByManagement ==
    \A u \in Callers :
        ~is_management(u) =>
            /\ \A id \in IdArgs(events), s \in IdArgs(users) :
                  LET r == assign_support_contact(events, users, id, s, u)
                  IN  /\ Denied(r) /\ r.msg = OnlyManagementMsg
                      /\ r.db = events
            /\ \A id \in IdArgs(contracts), a \in EventCreateArgs :
                  SupportContactsKept(events,
                      create_event(events, contracts, id, a[1], a[2], a[3], u).db)
            /\ \A id \in IdArgs(events), a \in EventUpdateArgs :
                  SupportContactsKept(events,
                      update_event(events, id, u, a[1], a[2], a[3]).db)

\* A non-MANAGEMENT caller has just been refused an assignment, with an
\* event stored.
C14_Witness ==
    /\ last.op = "assign_support_contact" /\ last.err = "PermissionError"
    /\ last.msg = OnlyManagementMsg
    /\ events # <<>>

\* The id names an existing, active user of department SUPPORT.
ActiveSupport(us, id) ==
    id \in DOMAIN us /\ us[id].department = SUPPORT /\ us[id].is_active

\* C15: assign_support_contact by a MANAGEMENT caller on an existing event
\* sets support_contact_id to the given id exactly when the id names an
\* existing, active SUPPORT user, and otherwise fails as an invalid reference
\* and leaves the events unchanged.
C15_AssignValidatesSupport ==
    \A u \in Callers, id \in DOMAIN events, s \in IdArgs(users) :
        LET r == assign_support_contact(events, users, id, s, u)
        IN  is_management(u) =>
              /\ ActiveSupport(users, s) =>
                    (Succeeds(r) /\ r.db[id].support_contact_id = s)
              /\ ~ActiveSupport(users, s) =>
                    /\ r.err = "ValueError"
                    /\ r.msg = "Invalid support contact ID"
                    /\ r.db = events

\* No identity can be resolved: no token, an undecodable or expired token, a
\* token without user_id, or a user_id with no user row.
Unresolvable(us, token_file) ==
    \/ token_file.kind \in {"none", "empty", "garbage"}
    \/ /\ token_file.kind = "jwt"
       /\ \/ token_file.state # "valid"
          \/ token_file.user_id = None
          \/ token_file.user_id \notin DOMAIN us

\* C16: with no identity resolvable, a function wrapped by require_auth,
\* require_department or require_permission raises the authentication-
\* required error and its body does not run: the store is left as it was.
C16_AuthRequiredBeforeBody ==
    \A token_file \in TokenFiles(users), kwargs \in KwargsArgs,
       email \in Emails :
        LET NotRun(r) ==
                /\ Denied(r) /\ r.msg = AuthRequiredMsg
                /\ r.db = clients
        IN  Unresolvable(users, token_file) =>
              /\ NotRun(require_auth(users, token_file, kwargs, clients, email))
              /\ \A departments \in SUBSET Department :
                    NotRun(require_department(departments, users, token_file,
                                              kwargs, clients, email))
              /\ \A action \in Actions, resource \in Resources :
                    NotRun(require_permission(action, resource, users,
                                              token_file, kwargs, clients,
                                              email))

\* A decorated function has just been refused for want of an identity, after
\* a decorated call has run its body and stored a client.
C16_Witness ==
    /\ last.op = "require_permission" /\ last.err = "PermissionError"
    /\ last.msg = AuthRequiredMsg
    /\ clients # <<>>

\* --- filters of the list calls
ContractFilters == BOOLEAN \X BOOLEAN \X Opt(FilterIds)
EventFilters == BOOLEAN \X BOOLEAN \X BOOLEAN \X Opt(FilterIds)
NoContractFilter == <<FALSE, FALSE, {}>>
NoEventFilter == <<FALSE, FALSE, FALSE, {}>>

\* C17, the default scope: with no filter, a COMMERCIAL caller gets exactly
\* the clients and the contracts whose commercial_id is the caller's id, and
\* a SUPPORT caller exactly the events assigned to the caller.
C17_DefaultScope ==
    \A u \in Callers, now \in Nows :
        /\ is_commercial(u) =>
              /\ list_clients(clients, u, {}).rows =
                    {i \in DOMAIN clients : clients[i].commercial_id = u.id}
              /\ list_contracts(contracts, u, FALSE, FALSE, {}).rows =
                    {i \in DOMAIN contracts : contracts[i].commercial_id = u.id}
        /\ is_support(u) =>
              list_events(events, u, FALSE, FALSE, FALSE, {}, now).rows =
                  {i \in DOMAIN events : events[i].support_contact_id = u.id}

\* C17, an explicit filter: the result is the rows the filter selects,
\* whoever the caller is.
C17_ExplicitFilter ==
    \A u \in Callers, v \in Callers, now \in Nows :
        /\ \A c \in UserIds :
              list_clients(clients, u, {c}).rows =
                  {i \in DOMAIN clients : clients[i].commercial_id = c}
        /\ list_contracts(contracts, u, TRUE, FALSE, {}).rows =
              {i \in DOMAIN contracts : ~contracts[i].signed}
        /\ list_contracts(contracts, u, FALSE, TRUE, {}).rows =
              {i \in DOMAIN contracts : contracts[i].amount_due > 0}
        /\ \A c \in FilterIds :
              /\ list_contracts(contracts, u, FALSE, FALSE, {c}).rows =
                    {i \in DOMAIN contracts : contracts[i].client_id = c}
              /\ list_events(events, u, FALSE, FALSE, FALSE, {c}, now).rows =
                    {i \in DOMAIN events : events[i].contract_id = c}
        /\ list_events(events, u, TRUE, FALSE, FALSE, {}, now).rows =
              {i \in DOMAIN events : events[i].support_contact_id = None}
        /\ list_events(events, u, FALSE, TRUE, FALSE, {}, now).rows =
              {i \in DOMAIN events : events[i].event_date_start > now}
        /\ list_events(events, u, FALSE, FALSE, TRUE, {}, now).rows =
              {i \in DOMAIN events : events[i].event_date_end < now}
        /\ \A f \in ContractFilters \ {NoContractFilter} :
              list_contracts(contracts, u, f[1], f[2], f[3]).rows =
                  list_contracts(contracts, v, f[1], f[2], f[3]).rows
        /\ \A f \in EventFilters \ {NoEventFilter} :
              list_events(events, u, f[1], f[2], f[3], f[4], now).rows =
                  list_events(events, v, f[1], f[2], f[3], f[4], now).rows

\* C17, MANAGEMENT: with no filter a MANAGEMENT caller gets every row.
C17_ManagementUnscoped ==
    \A u \in Callers, now \in Nows :
        is_management(u) =>
            /\ list_clients(clients, u, {}).rows = DOMAIN clients
            /\ list_contracts(contracts, u, FALSE, FALSE, {}).rows =
                  DOMAIN contracts
            /\ list_events(events, u, FALSE, FALSE, FALSE, {}, now).rows =
                  DOMAIN events

\* C17: listing with no filter is scoped by department (own records for
\* COMMERCIAL, assigned events for SUPPORT, every row for MANAGEMENT), and
\* listing with a filter returns the filtered rows whoever the caller is.
C17_ListScoping ==
    C17_DefaultScope /\ C17_ExplicitFilter /\ C17_ManagementUnscoped

\* The participants of the scenario: a manager, a commercial and a client of
\* that commercial, and two different supports.
WorkflowCast ==
    {<<m, c, k, s, o>> \in
        Callers \X Callers \X (DOMAIN clients) \X Callers \X Callers :
        /\ is_management(m) /\ is_commercial(c)
        /\ clients[k].commercial_id = c.id
        /\ is_support(s) /\ is_support(o) /\ o.id # s.id}

\* C18, the steps up to the events: the manager creates a contract (total
\* and due the largest amount) and an unsigned sibling for the commercial's
\* client, the commercial signs the first and creates an event on it, and
\* the commercial's create_event on the sibling fails as unsigned.
C18_ContractToEvent ==
    \A w \in WorkflowCast :
        LET m == w[1]
            c == w[2]
            r1 == create_contract(contracts, clients, w[3], MaxAmount,
                                  MaxAmount, c.id, m)
            id == Len(r1.db)
            r2 == create_contract(r1.db, clients, w[3], MaxAmount,
                                  MaxAmount, c.id, m)
            sibling == Len(r2.db)
            r3 == sign_contract(r2.db, id, c, "up")
            r4 == create_event(events, r3.db, id, 1, 2, 10, c)
            r5 == create_event(r4.db, r3.db, sibling, 1, 2, 10, c)
        IN  /\ Succeeds(r1) /\ ~r1.db[id].signed
            /\ r1.db[id].total_amount = MaxAmount
            /\ r1.db[id].amount_due = MaxAmount
            /\ Succeeds(r2)
            /\ Succeeds(r3) /\ r3.db[id].signed /\ ~r3.db[sibling].signed
            /\ Succeeds(r4) /\ Len(r4.db) = Len(events) + 1
            /\ r5.err = "ValueError" /\ r5.msg = UnsignedMsg /\ r5.db = r4.db

\* C18: the whole scenario: after the steps up to the events, the manager's
\* assign_support_contact with a support's id succeeds, that support's
\* update of attendees succeeds, and the other support's same update is
\* denied.
C18_Workflow ==
    /\ C18_ContractToEvent
    /\ \A w \in WorkflowCast :
          LET m == w[1]
              c == w[2]
              s == w[4]
              o == w[5]
              r1 == create_contract(contracts, clients, w[3], MaxAmount,
                                    MaxAmount, c.id, m)
              id == Len(r1.db)
              r3 == sign_contract(r1.db, id, c, "up")
              r4 == create_event(events, r3.db, id, 1, 2, 10, c)
              event_id == Len(r4.db)
              r6 == assign_support_contact(r4.db, users, event_id, s.id, m)
              r7 == update_event(r6.db, event_id, s, {}, {}, {20})
              r8 == update_event(r7.db, event_id, o, {}, {}, {20})
          IN  /\ Succeeds(r6) /\ r6.db[event_id].support_contact_id = s.id
              /\ Succeeds(r7) /\ r7.db[event_id].attendees = 20
              /\ Denied(r8) /\ r8.msg = AssignedEventMsg /\ r8.db = r7.db

\* C19, ClientService: a call that fails leaves the clients as they were.
C19_ClientCallsAtomic ==
    \A u \in Callers :
        /\ \A n \in Names, e \in Emails, c \in CommercialIds :
              LET r == create_client(clients, n, e, c, u)
              IN  ~Succeeds(r) => r.db = clients
        /\ \A id \in IdArgs(clients), a \in ClientUpdateArgs :
              LET r == update_client(clients, id, u, a[1], a[2], a[3])
              IN  ~Succeeds(r) => r.db = clients

\* C19, ContractService: a call that fails leaves the contracts as they were.
C19_ContractCallsAtomic ==
    \A u \in Callers :
        /\ \A id \in IdArgs(clients), t \in Amounts, d \in Amounts,
              c \in CommercialIds :
              LET r == create_contract(contracts, clients, id, t, d, c, u)
              IN  ~Succeeds(r) => r.db = contracts
        /\ \A id \in IdArgs(contracts) :
              /\ \A a \in ContractUpdateArgs :
                    LET r == update_contract(contracts, id, u, a[1], a[2], a[3])
                    IN  ~Succeeds(r) => r.db = contracts
              /\ \A p \in Amounts :
                    LET r == update_payment(contracts, id, p, u)
                    IN  ~Succeeds(r) => r.db = contracts
              /\ \A sink \in Sinks :
                    LET r == sign_contract(contracts, id, u, sink)
                    IN  ~Succeeds(r) => r.db = contracts

\* C19, EventService: a call that fails leaves the events as they were.
C19_EventCallsAtomic ==
    \A u \in Callers :
        /\ \A id \in IdArgs(contracts), a \in EventCreateArgs :
              LET r == create_event(events, contracts, id, a[1], a[2], a[3], u)
              IN  ~Succeeds(r) => r.db = events
        /\ \A id \in IdArgs(events) :
              /\ \A a \in EventUpdateArgs :
                    LET r == update_event(events, id, u, a[1], a[2], a[3])
                    IN  ~Succeeds(r) => r.db = events
              /\ \A s \in IdArgs(users) :
                    LET r == assign_support_contact(events, users, id, s, u)
                    IN  ~Succeeds(r) => r.db = events

\* C19: whenever a call of a ClientService, ContractService or EventService
\* method fails, the clients, contracts and events are what they were before
\* the call.
C19_AllOrNothing ==
    C19_ClientCallsAtomic /\ C19_ContractCallsAtomic /\ C19_EventCallsAtomic

\* C20: sign_contract ends the same way and leaves the same contracts
\* whether the telemetry sink takes the contract-signed record or raises.
C20_TelemetryFailureSuppressed ==
    \A u \in Callers, id \in IdArgs(contracts) :
        LET up == sign_contract(contracts, id, u, "up")
            down == sign_contract(contracts, id, u, "down")
        IN  down.err = up.err /\ down.db = up.db

C21_DeleteKeepsIt ==
    \A id \in IdArgs(users) :
        LET r == AuthService_delete_user(users, clients, contracts, events, id)
        IN  \A e \in DOMAIN r.events :
                r.events[e].support_contact_id # None =>
                    r.events[e].support_contact_id # id

\* C22: every stored event starts before it ends, whatever create_event and
\* update_event calls were made (an update of one date alone included).
C22_StartBeforeEnd ==
    \A e \in DOMAIN events :
        events[e].event_date_start < events[e].event_date_end

\* Two update_payment calls on one contract that both read the row before
\* either wrote it, now both committed.
RacedPayments ==
    /\ DOMAIN calls = Procs
    /\ \A p \in Procs :
          /\ calls[p].op = "update_payment"
          /\ calls[p].pc = "done"
          /\ calls[p].overlapped
    /\ calls[1].contract_id = calls[2].contract_id
    /\ calls[1].row = calls[2].row

\* amount_due after the two payments made one after the other, first a then b.
OneAfterTheOther(row, a, b) ==
    Contract_update_payment(Contract_update_payment(row, a), b).amount_due

SerialOutcomes ==
    {OneAfterTheOther(calls[1].row, calls[1].amount_paid, calls[2].amount_paid),
     OneAfterTheOther(calls[1].row, calls[2].amount_paid, calls[1].amount_paid)}

\* C23: two update_payment calls on one contract whose fetch and persist
\* steps interleave lose an update: with two payments that together do not
\* exceed the amount due, the final amount_due differs from the result of
\* making both payments one after the other.
C23_InterleavingLosesAPayment ==
    (/\ RacedPayments
     /\ calls[1].amount_paid > 0
     /\ calls[2].amount_paid > 0
     /\ calls[1].amount_paid + calls[2].amount_paid <= calls[1].row.amount_due)
    => contracts[calls[1].contract_id].amount_due \notin SerialOutcomes

\* What holds instead: no interleaving of two payments ends with an
\* amount_due that one of the two serial orders does not give.
C23_InterleavingsSerializable ==
    RacedPayments =>
        contracts[calls[1].contract_id].amount_due \in SerialOutcomes

\* C29: at most one sign_contract call succeeds for a contract, also when
\* the calls of two authorized callers interleave between the read of the
\* signed flag and the write: no two calls have both signed the same contract
\* and returned without error.
C29_AtMostOneSigningSucceeds ==
    ~(/\ DOMAIN calls = Procs
      /\ \A p \in Procs :
            /\ calls[p].op = "sign_contract"
            /\ calls[p].pc = "done"
            /\ calls[p].err = "none"
      /\ calls[1].contract_id = calls[2].contract_id)

NoCreateContractMsg == "You don't have permission to create contracts"

\* C24: create_contract succeeds only for a MANAGEMENT caller and an existing
\* client; any other caller gets the permission failure and an unknown client
\* the not-found failure, with nothing stored; the contract created is the
\* one row added and it is unsigned.
C24_CreateContractByManagement ==
    \A u \in Callers, client_id \in IdArgs(clients), total_amount \in Amounts,
       amount_due \in Amounts, commercial_id \in CommercialIds :
        LET r == create_contract(contracts, clients, client_id, total_amount,
                                 amount_due, commercial_id, u)
        IN  /\ u.department # MANAGEMENT =>
                  /\ Denied(r)
                  /\ r.msg = NoCreateContractMsg
                  /\ r.db = contracts
            /\ (u.department = MANAGEMENT /\ ~Exists(clients, client_id)) =>
                  /\ r.err = "ValueError"
                  /\ r.msg = "not found"
                  /\ r.db = contracts
            /\ (u.department = MANAGEMENT /\ Exists(clients, client_id)) =>
                  /\ Succeeds(r)
                  /\ Len(r.db) = Len(contracts) + 1
                  /\ SubSeq(r.db, 1, Len(contracts)) = contracts
                  /\ r.db[Len(r.db)].client_id = client_id
                  /\ r.db[Len(r.db)].signed = FALSE

\* a contract has just been created, and it is stored unsigned
C24_Witness ==
    /\ last.op = "create_contract"
    /\ last.err = "none"
    /\ contracts # <<>>
    /\ ~contracts[Len(contracts)].signed

\* C25: a payment never raises the amount due: after a successful
\* update_payment the contract's amount_due is at most what it was before
\* (of a total and amount due of 2, a payment then a smaller one leave less
\* due each time).
C25_PaymentNeverRaisesDue ==
    \A u \in Callers, id \in DOMAIN contracts, a \in Amounts :
        LET r == update_payment(contracts, id, a, u)
        IN  Succeeds(r) => r.db[id].amount_due <= contracts[id].amount_due

\* C26: a client created by a COMMERCIAL caller is owned by that caller:
\* whatever commercial_id is given, the new client's commercial_id is the
\* caller's id.
C26_CreatedClientOwnedByCaller ==
    \A u \in Callers, full_name \in Names, email \in Emails,
       commercial_id \in UserIds :
        LET r == create_client(clients, full_name, email, commercial_id, u)
        IN  (is_commercial(u) /\ Succeeds(r)) =>
              r.db[Len(r.db)].commercial_id = u.id

\* C27: update_client by a COMMERCIAL caller never changes a client's
\* commercial_id; on an own client a commercial_id argument is ignored
\* without error (the call ends as it does without the argument) and the
\* other fields given are stored.
C27_CommercialCannotReassign ==
    \A u \in Callers, id \in DOMAIN clients, full_name \in Opt(Names),
       email \in Opt(Emails), commercial_id \in Opt(UserIds) :
        LET r == update_client(clients, id, u, full_name, email, commercial_id)
            plain == update_client(clients, id, u, full_name, email, {})
        IN  is_commercial(u) =>
              /\ r.db[id].commercial_id = clients[id].commercial_id
              /\ r = plain
              /\ Succeeds(r) =>
                    /\ clients[id].commercial_id = u.id
                    /\ full_name # {} => r.db[id].full_name = Val(full_name)
                    /\ email # {} => r.db[id].email = Val(email)
                    /\ \A j \in DOMAIN clients : j # id => r.db[j] = clients[j]

\* an update has just succeeded, and a COMMERCIAL's update of an own client
\* that names another owner succeeds in this store
C27_Witness ==
    /\ last.op = "update_client"
    /\ last.err = "none"
    /\ \E u \in Callers, id \in DOMAIN clients, c \in UserIds :
          /\ is_commercial(u)
          /\ clients[id].commercial_id = u.id
          /\ c # u.id
          /\ Succeeds(update_client(clients, id, u, {"n2"}, {}, {c}))

\* C28: no service call made by a SUPPORT caller, with any arguments,
\* changes or creates a client or a contract: every call of the client and
\* contract services is refused with the tables as they were.
C28_SupportLeavesClientsAndContracts ==
    \A u \in Callers :
        is_support(u) =>
            /\ \A full_name \in Names, email \in Emails, c \in UserIds :
                  LET r == create_client(clients, full_name, email, c, u)
                  IN  Denied(r) /\ r.db = clients
            /\ \A id \in IdArgs(clients), full_name \in Opt(Names),
                  email \in Opt(Emails), c \in Opt(UserIds) :
                  LET r == update_client(clients, id, u, full_name, email, c)
                  IN  ~Succeeds(r) /\ r.db = clients
            /\ \A id \in IdArgs(clients), total_amount \in Amounts,
                  amount_due \in Amounts, c \in UserIds :
                  LET r == create_contract(contracts, clients, id, total_amount,
                                           amount_due, c, u)
                  IN  Denied(r) /\ r.db = contracts
            /\ \A id \in IdArgs(contracts), a \in ContractUpdateArgs :
                  LET r == update_contract(contracts, id, u, a[1], a[2], a[3])
                  IN  ~Succeeds(r) /\ r.db = contracts
            /\ \A id \in IdArgs(contracts), sink \in Sinks :
                  LET r == sign_contract(contracts, id, u, sink)
                  IN  ~Succeeds(r) /\ r.db = contracts
            /\ \A id \in IdArgs(contracts), amount_paid \in Amounts :
                  LET r == update_payment(contracts, id, amount_paid, u)
                  IN  ~Succeeds(r) /\ r.db = contracts

\* a SUPPORT caller has just been refused the signature of a stored contract
C28_Witness ==
    /\ last.op = "sign_contract"
    /\ last.err = "PermissionError"
    /\ last.msg = "You don't have permission to sign contracts"
    /\ contracts # <<>>
    /\ clients # <<>>

====
